---- MODULE Spec2Model ----
(***************************************************************************)
(* TravelMap (src/app.py): the derived-metrics pipeline of the Streamlit   *)
(* travel dashboard.  The session holds two tables, trips_df and meals_df; *)
(* every script run loads the held uploads, derives the trip columns       *)
(* (lines 345-381), applies the widget that triggered the run (add trip,   *)
(* add meal, table editors) and derives the columns again (lines 524-547). *)
(*                                                                         *)
(* Units: money columns are whole dollars, cost_per_day is in cents (the   *)
(* code rounds it to 2 decimals), dates are day numbers counted from       *)
(* 1 January of EpochYear (2023-03-15 is day 73, 2023-03-22 is day 80).    *)
(***************************************************************************)
EXTENDS Integers, Sequences, FiniteSets, TLC

VARIABLES
    up_trips,       \* the file held by the "Upload trips.csv" uploader
    up_meals,       \* the file held by the "Upload meals.csv" uploader
    trips_df,       \* st.session_state.trips_df: the rows
    trips_cols,     \* the derived columns st.session_state.trips_df carries
    meals_df,       \* st.session_state.meals_df: the rows
    run_status,     \* how the last script run ended: "ok" or "KeyError"
    rederive_in,    \* the tables read at lines 525-526 of the last run
    sel_countries,  \* the countries selected in the "Country" filter
    sel_years,      \* the years selected in the "Year" filter
    score_df,       \* the scored trips of the last run (lines 999-1007)
    search,         \* the text in the "Search trips/cities" box
    metrics         \* the filtered set and the key metrics of the last run

vars == <<up_trips, up_meals, trips_df, trips_cols, meals_df, run_status,
          rederive_in, sel_countries, sel_years, score_df, search, metrics>>

----------------------------------------------------------------------------
(* Bounds of the model *)

MaxTrips == 2
MaxMeals == 2
\* Ids are allocated without limit; the model stops adding at this id.
MaxId == 3

----------------------------------------------------------------------------
(* Values *)

\* NaN / NaT / pd.NA: the missing value of every column.
NA == -1000000

EpochYear == 2023

TemplateStart == 73
TemplateEnd == 80

Max(a, b) == IF a >= b THEN a ELSE b

isna(x) == x = NA

\* Series.fillna(v)
fillna(x, v) == IF isna(x) THEN v ELSE x

\* Series.clip(lower=lo): NaN stays NaN
clip_lower(x, lo) == IF isna(x) THEN NA ELSE Max(x, lo)

\* Series.where(cond, other) on one element, cond = self.notna()
where_notna(x, other) == IF isna(x) THEN other ELSE x

\* Series.replace({a: b})
replace(x, a, b) == IF x = a THEN b ELSE x

YearLen(y) ==
    IF (y % 4 = 0 /\ y % 100 # 0) \/ y % 400 = 0 THEN 366 ELSE 365

RECURSIVE YearFrom(_, _)
YearFrom(y, d) == IF d < YearLen(y) THEN y ELSE YearFrom(y + 1, d - YearLen(y))

\* year_series: .dt.year of a date column, NaT gives NaN
year_series(d) == IF isna(d) THEN NA ELSE YearFrom(EpochYear, d)

\* numpy round-half-to-even of n/d dollars to 2 decimals, as cents (d > 0)
round2(n, d) ==
    LET q == (n * 100) \div d
        r == (n * 100) % d
    IN  IF 2 * r < d THEN q
        ELSE IF 2 * r > d THEN q + 1
        ELSE IF q % 2 = 0 THEN q ELSE q + 1

----------------------------------------------------------------------------
(* Tables *)

DerivedCols ==
    {"days", "cost_per_day", "food_cost_usd_from_meals", "food_cost_usd_final",
     "year"}

\* A trip row as entered or uploaded: the derived cells are empty.
RawTrip(id, name, city, ctry, sd, ed, total, food, speed) ==
    [trip_id |-> id, trip_name |-> name, primary_city |-> city,
     country |-> ctry, start_date |-> sd, end_date |-> ed,
     total_cost_usd |-> total, food_cost_usd |-> food,
     internet_speed_mbps |-> speed,
     days |-> NA, cost_per_day |-> NA, food_cost_usd_from_meals |-> NA,
     food_cost_usd_final |-> NA, year |-> NA]

Meal(mid, tid, cost) == [meal_id |-> mid, trip_id |-> tid, cost_usd |-> cost]

\* The raw (non-derived) cells of a trip row
RawOf(r) ==
    [trip_id |-> r.trip_id, trip_name |-> r.trip_name,
     primary_city |-> r.primary_city, country |-> r.country,
     start_date |-> r.start_date, end_date |-> r.end_date,
     total_cost_usd |-> r.total_cost_usd, food_cost_usd |-> r.food_cost_usd,
     internet_speed_mbps |-> r.internet_speed_mbps]

empty_trips_df == << >>
empty_meals_df == << >>

----------------------------------------------------------------------------
(* The derivation: lines 358-381 (first derive) and 524-547 (re-derive) *)

\* The day-inclusive count of the earlier revisions: both ends counted
days_of_inclusive(r) ==
    IF isna(r.start_date) \/ isna(r.end_date)
    THEN NA
    ELSE clip_lower(r.end_date - r.start_date + 1, 1)

\* (end_date - start_date).dt.days.clip(lower=1): NaT on either side gives NaN
days_of(r) ==
    IF isna(r.start_date) \/ isna(r.end_date)
    THEN NA
    ELSE clip_lower(r.end_date - r.start_date, 1)

\* (total_cost_usd.fillna(0) / days.replace({0:1})).round(2): x / NaN is NaN
cost_per_day_of(total, days) ==
    IF isna(days) THEN NA ELSE round2(fillna(total, 0), replace(days, 0, 1))

with_days(r) ==
    LET d == days_of(r)
    IN  [r EXCEPT !.days = d,
                  !.cost_per_day = cost_per_day_of(r.total_cost_usd, d)]

\* The reconciliation without the final .clip(lower=0)
with_final_unclipped(r) ==
    [r EXCEPT
       !.food_cost_usd_final =
           fillna(where_notna(r.food_cost_usd_from_meals, r.food_cost_usd), 0),
       !.year = year_series(r.start_date)]

\* food_cost_usd_final and year from the row's food_cost_usd_from_meals cell
with_final(r) ==
    [r EXCEPT
       !.food_cost_usd_final =
           clip_lower(fillna(where_notna(r.food_cost_usd_from_meals,
                                         r.food_cost_usd), 0), 0),
       !.year = year_series(r.start_date)]

\* meals["cost_usd"] = to_numeric(...).fillna(0); a non-numeric trip_id is NA
coerce_meals(meals) ==
    [i \in 1..Len(meals) |-> [meals[i] EXCEPT !.cost_usd = fillna(@, 0)]]

RECURSIVE SumCost(_, _)
SumCost(meals, k) ==
    IF meals = << >> THEN 0
    ELSE (IF Head(meals).trip_id = k THEN Head(meals).cost_usd ELSE 0)
         + SumCost(Tail(meals), k)

RECURSIVE SortedSeq(_)
SortedSeq(S) ==
    IF S = {} THEN << >>
    ELSE LET m == CHOOSE x \in S : \A y \in S : x <= y
         IN  <<m>> \o SortedSeq(S \ {m})

\* The meal costs keyed by trip_id without the groupby: one entry per meal
food_from_meals_ungrouped(meals) ==
    [j \in 1..Len(meals) |->
        [key |-> meals[j].trip_id, val |-> meals[j].cost_usd]]

\* meals.groupby("trip_id", dropna=False)["cost_usd"].sum(): one entry per
\* distinct trip_id, the missing trip_id being a group of its own
food_from_meals(meals) ==
    LET keys == SortedSeq({meals[i].trip_id : i \in 1..Len(meals)})
    IN  [j \in 1..Len(keys) |->
            [key |-> keys[j], val |-> SumCost(meals, keys[j])]]

\* trips.merge(right, how="left", left_on="trip_id", right_index=True): every
\* left row in order, once per right entry with its key (missing keys match
\* each other), or once with NaN when no entry has its key
RECURSIVE merge_left(_, _)
merge_left(rows, right) ==
    IF rows = << >> THEN << >>
    ELSE LET r == Head(rows)
             hits == SelectSeq(right, LAMBDA e : e.key = r.trip_id)
             out == IF hits = << >>
                    THEN << [r EXCEPT !.food_cost_usd_from_meals = NA] >>
                    ELSE [i \in 1..Len(hits) |->
                            [r EXCEPT !.food_cost_usd_from_meals = hits[i].val]]
         IN  out \o merge_left(Tail(rows), right)

\* The column assignments of lines 359-364 and 376-378 on every row
all_with_days(rows) == [i \in 1..Len(rows) |-> with_days(rows[i])]
all_with_final(rows) == [i \in 1..Len(rows) |-> with_final(rows[i])]

\* trips["food_cost_usd_from_meals"] = pd.Series(dtype="float"): all NaN
without_food_from_meals(rows) ==
    [i \in 1..Len(rows) |-> [rows[i] EXCEPT !.food_cost_usd_from_meals = NA]]

\* A session: the two tables and the derived columns the trip table carries.
Session(t, c, m) == [trips |-> t, cols |-> c, meals |-> m]

\* Lines 345-381.  With meals present the merge runs without dropping an
\* existing food_cost_usd_from_meals column: the result then carries
\* food_cost_usd_from_meals_x and _y, and line 377 raises KeyError.
first_derive(s) ==
    IF Len(s.meals) > 0
    THEN IF "food_cost_usd_from_meals" \in s.cols
         THEN [ok |-> FALSE, s |-> s]
         ELSE LET m == coerce_meals(s.meals)
                  t == merge_left(all_with_days(s.trips), food_from_meals(m))
              IN  [ok |-> TRUE,
                   s |-> Session(all_with_final(t), DerivedCols, m)]
    ELSE LET t == without_food_from_meals(all_with_days(s.trips))
         IN  [ok |-> TRUE,
              s |-> Session(all_with_final(t), DerivedCols, s.meals)]

\* Lines 524-547.  With meals present the column is dropped and merged again;
\* without meals the column the table already carries is kept (line 540).
re_derive(s) ==
    IF Len(s.meals) > 0
    THEN LET m == coerce_meals(s.meals)
             t == merge_left(all_with_days(s.trips), food_from_meals(m))
         IN  Session(all_with_final(t), DerivedCols, m)
    ELSE LET d == all_with_days(s.trips)
             t == IF "food_cost_usd_from_meals" \in s.cols
                  THEN d ELSE without_food_from_meals(d)
         IN  Session(all_with_final(t), DerivedCols, s.meals)

----------------------------------------------------------------------------
(* Files and form inputs *)

\* A file an uploader holds: its rows, and the required columns it lacks
NoFile == [held |-> FALSE, rows |-> << >>, missing |-> {}]
File(rows) == [held |-> TRUE, rows |-> rows, missing |-> {}]
FileLacking(rows, missing) == [held |-> TRUE, rows |-> rows, missing |-> missing]

\* template_trips_bytes (lines 141-149) and template_meals_bytes (151-157)
template_trips ==
    << RawTrip(1, "Tokyo Spring Break", "Tokyo", "Japan",
               TemplateStart, TemplateEnd, 2000, 300, 45) >>
template_meals == << Meal(1, 1, 12) >>

\* A trips file with the cells a spreadsheet leaves behind: one trip id on two
\* rows, an end date before the start date, empty dates and costs, a
\* negative manual food cost.
messy_trips ==
    << RawTrip(1, "Lisbon", "Lisbon", "Portugal", TemplateEnd, TemplateStart,
               NA, 0 - 5, NA),
       RawTrip(1, "Porto", "Porto", "Portugal", NA, TemplateEnd, NA, NA, NA) >>

\* A meals file with a meal of a trip that is in no trips file (trip 9), and
\* one with a refund and a meal whose trip_id cell is not a number.
orphan_meals == << Meal(1, 1, 12), Meal(2, 9, 18) >>
messy_meals == << Meal(1, 1, 0 - 20), Meal(2, NA, 18) >>

\* A meals file that still holds a meal of trip 2, a trip the trips file of
\* the template no longer (or not yet) holds
leftover_meals == << Meal(1, 2, 18) >>

\* The template trips file saved without its total_cost_usd column
lacking_trips == FileLacking(<< RawTrip(1, "Tokyo Spring Break", "Tokyo", "Japan",
                                        TemplateStart, TemplateEnd, NA, 300, 45) >>,
                             {"total_cost_usd"})

TripFiles == {template_trips, messy_trips}
TripUploads == {File(f) : f \in TripFiles} \cup {lacking_trips}
MealFiles == {template_meals, orphan_meals, messy_meals, leftover_meals}

\* What the Add Trip form can be submitted with (lines 405-421)
FormTexts(filled) == {"", filled}
FormDates == {TemplateStart, TemplateEnd}
FormTotals == {2000}
FormMealCosts == {300}
\* What the Add Meal form can be submitted with (lines 462-470)
FormCosts == {18}

\* An allocation by the number of rows: rows + 1
next_int_count(ids) == Len(ids) + 1

\* next_int (lines 159-161): largest numeric id + 1, or 1
SetMax(S) == CHOOSE x \in S : \A y \in S : y <= x
next_int(ids) ==
    LET nums == {ids[i] : i \in 1..Len(ids)} \ {NA}
    IN  IF nums = {} THEN 1 ELSE SetMax(nums) + 1

Column(rows, c) == [i \in 1..Len(rows) |-> rows[i][c]]

----------------------------------------------------------------------------
(* Fractions: the exact values of the normalised columns *)

Abs(x) == IF x < 0 THEN 0 - x ELSE x

RECURSIVE GCD(_, _)
GCD(a, b) == IF b = 0 THEN a ELSE GCD(b, a % b)

\* n / d in lowest terms with a positive denominator (d # 0)
Rat(n, d) ==
    LET g == GCD(Abs(n), Abs(d))
        sg == IF d < 0 THEN 0 - 1 ELSE 1
    IN  [n |-> (sg * n) \div g, d |-> (sg * d) \div g]

Zero == [n |-> 0, d |-> 1]
One == [n |-> 1, d |-> 1]

\* Sums and quotients, with the common factors taken out before multiplying
RatAdd(a, b) ==
    LET g == GCD(a.d, b.d)
    IN  Rat(a.n * (b.d \div g) + b.n * (a.d \div g), (a.d \div g) * b.d)
RatSub(a, b) == RatAdd(a, [n |-> 0 - b.n, d |-> b.d])
RatScale(k, a) == Rat(k * a.n, a.d)
RatDiv(a, b) ==
    LET g == GCD(a.d, b.d)
        h == GCD(Abs(a.n), Abs(b.n))
    IN  Rat((a.n \div h) * (b.d \div g), (a.d \div g) * (b.n \div h))
RatLeq(a, b) == a.n * b.d <= b.n * a.d
RatLess(a, b) == a.n * b.d < b.n * a.d
RatMax(S) == CHOOSE x \in S : \A y \in S : RatLeq(y, x)
RatMin(S) == CHOOSE x \in S : \A y \in S : RatLeq(x, y)

----------------------------------------------------------------------------
(* Filters (lines 554-569) and the workability score (lines 945-1007) *)

\* Lines 554-555: the options of the two filters
countries(rows) == {rows[i].country : i \in 1..Len(rows)}
years(rows) == {rows[i].year : i \in 1..Len(rows)} \ {NA}

\* Lines 556-557: a multiselect without a key is the same widget only while
\* its options are the same: it then keeps its selection, or takes the one
\* the user just made; with other options, or when the last run did not show
\* it, it starts from its default, every option selected.
multiselect(options, shown, shown_options, kept, pick) ==
    IF shown /\ options = shown_options
    THEN (IF pick.on THEN pick.sel ELSE kept)
    ELSE options

NoPick == [on |-> FALSE, sel |-> {}]
Pick(S) == [on |-> TRUE, sel |-> S]

\* Lines 562-563, with the search box empty: the rows of the filtered set
mask(rows, sc, sy) ==
    {i \in 1..Len(rows) : rows[i].country \in sc /\ rows[i].year \in sy}

\* Lines 564-569: the characters of the texts the search meets
chars(s) ==
    CASE s = "Tokyo Spring Break" ->
            <<"T", "o", "k", "y", "o", " ", "S", "p", "r", "i", "n", "g",
              " ", "B", "r", "e", "a", "k">>
      [] s = "Tokyo" -> <<"T", "o", "k", "y", "o">>
      [] s = "Osaka Free Stay" ->
            <<"O", "s", "a", "k", "a", " ", "F", "r", "e", "e", " ", "S",
              "t", "a", "y">>
      [] s = "Osaka" -> <<"O", "s", "a", "k", "a">>
      [] s = "Lisbon" -> <<"L", "i", "s", "b", "o", "n">>
      [] s = "Porto" -> <<"P", "o", "r", "t", "o">>
      [] s = "Kyoto Autumn" ->
            <<"K", "y", "o", "t", "o", " ", "A", "u", "t", "u", "m", "n">>
      [] s = "Kyoto" -> <<"K", "y", "o", "t", "o">>
      [] s = "Faro Refunded" ->
            <<"F", "a", "r", "o", " ", "R", "e", "f", "u", "n", "d", "e",
              "d">>
      [] s = "Faro" -> <<"F", "a", "r", "o">>
      [] s = "Tokyo Again" ->
            <<"T", "o", "k", "y", "o", " ", "A", "g", "a", "i", "n">>
      [] s = "tok" -> <<"t", "o", "k">>
      [] s = "o." -> <<"o", ".">>

\* case=False: the pattern and the text are compared with the case folded
lower(c) ==
    CASE c = "A" -> "a"
      [] c = "B" -> "b"
      [] c = "F" -> "f"
      [] c = "K" -> "k"
      [] c = "L" -> "l"
      [] c = "O" -> "o"
      [] c = "P" -> "p"
      [] c = "R" -> "r"
      [] c = "S" -> "s"
      [] c = "T" -> "t"
      [] OTHER -> c

\* Line 568: Series.str.contains(s, case=False, na=False) reads s as a regular
\* expression (regex=True is the default) and searches it anywhere in the
\* text: a "." of the pattern stands for any character.
str_contains(text, pat) ==
    \E k \in 0..(Len(chars(text)) - Len(chars(pat))) :
        \A j \in 1..Len(chars(pat)) :
            \/ chars(pat)[j] = "."
            \/ lower(chars(pat)[j]) = lower(chars(text)[k + j])

\* Lines 562-569: the rows of the filtered set; the search applies when the
\* box is not empty and the two filters left a row (line 564).
filtered(rows, sc, sy, s) ==
    IF s = "" THEN mask(rows, sc, sy)
    ELSE {i \in mask(rows, sc, sy) :
             \/ str_contains(rows[i].trip_name, s)
             \/ str_contains(rows[i].primary_city, s)}

\* Line 558: a text box keeps its text while it is shown, and takes the text
\* the user just typed; a run that did not show it starts it empty.
text_input(shown, kept, pick) ==
    IF shown THEN (IF pick.on THEN pick.sel ELSE kept) ELSE ""

\* A value pandas leaves undefined (NaN) where the model holds a fraction
nan == [n |-> 0, d |-> 0]

\* Series.sum() over the rows J: missing values are skipped
RECURSIVE col_sum(_, _, _)
col_sum(rows, J, col) ==
    IF J = {} THEN 0
    ELSE LET j == CHOOSE x \in J : TRUE
         IN  fillna(rows[j][col], 0) + col_sum(rows, J \ {j}, col)

\* The value at place k (from 0) of the defined values of a column in order
order_stat(rows, D, col, k) ==
    CHOOSE x \in {rows[j][col] : j \in D} :
        /\ Cardinality({j \in D : rows[j][col] < x}) <= k
        /\ k < Cardinality({j \in D : rows[j][col] <= x})

\* Series.median(): over the defined values, the middle one or the mean of
\* the two middle ones; undefined when no value is defined
median(rows, J, col) ==
    LET D == {j \in J : ~isna(rows[j][col])}
        n == Cardinality(D)
    IN  IF n = 0 THEN nan
        ELSE Rat(order_stat(rows, D, col, (n - 1) \div 2)
                 + order_stat(rows, D, col, n \div 2), 2)

\* Lines 571-585: the key metrics of the filtered set J of the trip table.
\* speed_series (line 576) is the defined speeds of the filtered set; of an
\* empty series the mean is undefined (line 575) and pct_good is nan (577).
summary(rows, J) ==
    LET speed_series == {j \in J : ~isna(rows[j].internet_speed_mbps)}
    IN  [index |-> J,
         trips |-> Cardinality(J),
         countries |-> IF J # {}
                       THEN Cardinality({rows[j].country : j \in J}) ELSE 0,
         total_spend |-> IF J # {}
                         THEN col_sum(rows, J, "total_cost_usd") ELSE 0,
         total_days |-> IF J # {} THEN col_sum(rows, J, "days") ELSE 0,
         med_cpd |-> IF J # {} THEN median(rows, J, "cost_per_day")
                     ELSE Zero,
         avg_speed |-> IF speed_series # {}
                       THEN Rat(col_sum(rows, speed_series,
                                        "internet_speed_mbps"),
                                Cardinality(speed_series))
                       ELSE nan,
         pct_good |-> IF speed_series # {}
                      THEN Rat(100 * Cardinality(
                                   {j \in speed_series :
                                       rows[j].internet_speed_mbps >= 25}),
                               Cardinality(speed_series))
                      ELSE nan]

\* Lines 936-938: the speed goes to every session row with the trip's id
save_speed(rows, tid, new_speed) ==
    [i \in 1..Len(rows) |->
        IF rows[i].trip_id = tid
        THEN [rows[i] EXCEPT !.internet_speed_mbps = new_speed]
        ELSE rows[i]]

NoSave == [on |-> FALSE, i |-> 0, speed |-> NA]
Save(i, new_speed) == [on |-> TRUE, i |-> i, speed |-> new_speed]

\* A trip_id cell that holds 3.5.  The trips file is read as it is (no line
\* makes trip_id whole), so the column can hold a number with a fraction; the
\* model holds this one under a value no whole id of the model has.
HalfId == 0 - 35

\* Line 935: int() cuts the fraction off
int(x) == IF x = HalfId THEN 3 ELSE x

\* Lines 922-943: the Save speed form offers the trips of the filtered set;
\* int() of a missing trip_id raises and the except branch changes nothing.
\* tid is int() of the selected trip's id (line 935); the speed goes to the
\* session rows whose trip_id equals tid (936-938), to none when there is
\* none (940).
form_set_speed(rows, shown, save) ==
    IF save.on /\ save.i \in shown /\ ~isna(rows[save.i].trip_id)
    THEN save_speed(rows, int(rows[save.i].trip_id), save.speed)
    ELSE rows

\* speed_norm with the speed divided by the range but not shifted by sp_min
speed_norm_unshifted(x, sp_min, sp_max) ==
    IF sp_max > sp_min THEN Rat(x, sp_max - sp_min) ELSE One

\* Line 1002
speed_norm(x, sp_min, sp_max) ==
    IF sp_max > sp_min THEN Rat(x - sp_min, sp_max - sp_min) ELSE One

\* The fill value 0.0 for the inverse cost of a zero cost_per_day
inv_cost_fill_zero(finite) == Zero

\* Line 1004: what fills the inverse cost of a zero cost_per_day
inv_cost_fill(finite) == IF finite # {} THEN RatMax(finite) ELSE One

\* Lines 1003-1004: cost_per_day is in cents, 1.0 / (c / 100) = 100 / c
inv_cost(c, finite) == IF c = 0 THEN inv_cost_fill(finite) ELSE Rat(100, c)

\* afford_norm giving 0.0 when all inverse costs are equal
afford_norm_flat_zero(x, cmin, cmax) ==
    IF RatLess(cmin, cmax) THEN RatDiv(RatSub(x, cmin), RatSub(cmax, cmin))
    ELSE Zero

\* Line 1006
afford_norm(x, cmin, cmax) ==
    IF RatLess(cmin, cmax) THEN RatDiv(RatSub(x, cmin), RatSub(cmax, cmin))
    ELSE One

\* Line 1007: 100 * (0.6 * speed_norm + 0.4 * afford_norm)
workability_score(sn, an) == RatAdd(RatScale(60, sn), RatScale(40, an))

\* Lines 999-1007 on the rows of t at the positions in basis: the rows with
\* a speed and a cost_per_day, each with its position in t and its scores.
workability(t, basis) ==
    LET scored == SortedSeq({i \in basis :
                                /\ ~isna(t[i].internet_speed_mbps)
                                /\ ~isna(t[i].cost_per_day)})
        speeds == {t[scored[k]].internet_speed_mbps : k \in 1..Len(scored)}
        costs == {t[scored[k]].cost_per_day : k \in 1..Len(scored)}
        sp_min == CHOOSE x \in speeds : \A y \in speeds : x <= y
        sp_max == SetMax(speeds)
        finite == {Rat(100, c) : c \in costs \ {0}}
        invs == {inv_cost(c, finite) : c \in costs}
        cmin == RatMin(invs)
        cmax == RatMax(invs)
    IN  [k \in 1..Len(scored) |->
            LET r == t[scored[k]]
                sn == speed_norm(r.internet_speed_mbps, sp_min, sp_max)
                ic == inv_cost(r.cost_per_day, finite)
                an == afford_norm(ic, cmin, cmax)
            IN  [index |-> scored[k], trip_id |-> r.trip_id,
                 internet_speed_mbps |-> r.internet_speed_mbps,
                 cost_per_day |-> r.cost_per_day,
                 speed_norm |-> sn, inv_cost |-> ic, afford_norm |-> an,
                 workability_score |-> workability_score(sn, an)]]

\* Lines 945-1007: t is the whole session trip table
score_df_of(rows) == workability(rows, 1..Len(rows))

----------------------------------------------------------------------------
(* One script run *)

\* Lines 349-353: a required column the table lacks is added with the cells
\* of the empty template, that is with no value in any row.
ensure_columns(rows, missing) ==
    [i \in 1..Len(rows) |->
        [c \in DOMAIN rows[i] |-> IF c \in missing THEN NA ELSE rows[i][c]]]

\* Lines 323-343: a held file replaces the session table on every run.  A
\* column the file lacks is read by nothing before lines 349-353 add it, so
\* the table is taken with that column already added.
load_uploads(s, ut, um) ==
    Session(IF ut.held THEN ensure_columns(ut.rows, ut.missing) ELSE s.trips,
            IF ut.held THEN {} ELSE s.cols,
            IF um.held THEN um.rows ELSE s.meals)

NoTables == Session(<< >>, {}, << >>)

Current == Session(trips_df, trips_cols, meals_df)

\* The session stored at lines 380-381, which the forms and editors act on
AtWidgets(s0, ut, um) == first_derive(load_uploads(s0, ut, um)).s

\* The script from line 319 on, for the session s0 left by the sidebar
\* buttons: load the held files, derive, let the submitted widget turn
\* AtWidgets(s0, ut, um) into s2, derive again.  A KeyError at line 377 ends
\* the run there: nothing below it runs and the session keeps what lines 332
\* and 342 stored.
\* Below the re-derive the run shows the filters with the selections pc and
\* py the user made in them, takes a submitted Save speed form, and scores the
\* trips of the session table.  d1 is the outcome of the first derive, s3 the
\* session after the re-derive, sc and sy the selections of the filters, t the
\* session trip table after the Save speed form.  ps is the text the user
\* typed in the search box, J the filtered set: the metrics (lines 571-585)
\* are computed from it above the Save speed form (lines 922-943).
RunPage(s0, ut, um, s2, pc, py, ps, save) ==
    \E d1 \in {first_derive(load_uploads(s0, ut, um))} :
        /\ up_trips' = ut
        /\ up_meals' = um
        /\ IF d1.ok
           THEN \E s3 \in {re_derive(s2)} :
                \E sc \in {multiselect(countries(s3.trips), run_status = "ok",
                                        countries(trips_df), sel_countries, pc)},
                   sy \in {multiselect(years(s3.trips), run_status = "ok",
                                        years(trips_df), sel_years, py)} :
                \E st \in {text_input(run_status = "ok", search, ps)} :
                \E J \in {filtered(s3.trips, sc, sy, st)} :
                \E t \in {form_set_speed(s3.trips, J, save)} :
                    /\ trips_df' = t
                    /\ trips_cols' = s3.cols
                    /\ meals_df' = s3.meals
                    /\ rederive_in' = s2
                    /\ run_status' = "ok"
                    /\ sel_countries' = sc
                    /\ sel_years' = sy
                    /\ score_df' = score_df_of(t)
                    /\ search' = st
                    /\ metrics' = summary(s3.trips, J)
           ELSE /\ trips_df' = d1.s.trips
                /\ trips_cols' = d1.s.cols
                /\ meals_df' = d1.s.meals
                /\ rederive_in' = NoTables
                /\ run_status' = "KeyError"
                /\ sel_countries' = {}
                /\ sel_years' = {}
                /\ score_df' = << >>
                /\ search' = ""
                /\ metrics' = summary(<< >>, {})

\* A run in which no filter is changed and no speed is saved
RunScript(s0, ut, um, s2) ==
    RunPage(s0, ut, um, s2, NoPick, NoPick, NoPick, NoSave)

\* Lines 426-450: the Add Trip form.
add_trip(s, trip_name, primary_city, country, total, meal_cost, sd, ed) ==
    IF trip_name = "" \/ primary_city = "" \/ country = "" THEN s
    ELSE IF ed < sd THEN s
    ELSE LET new_id == next_int(Column(s.trips, "trip_id"))
             new_row == RawTrip(new_id, trip_name, primary_city, country,
                                sd, ed, total, meal_cost, NA)
         IN  [s EXCEPT !.trips = Append(s.trips, new_row)]

\* Lines 472-492: the Add Meal form, for the trip whose label was selected.
add_meal(s, i, cuisine, cost) ==
    IF cuisine = "" THEN s
    ELSE LET use_trip_id == s.trips[i].trip_id
         IN  IF isna(use_trip_id) THEN s
             ELSE LET new_meal_id == next_int(Column(s.meals, "meal_id"))
                  IN  [s EXCEPT !.meals =
                          Append(s.meals, Meal(new_meal_id, use_trip_id, cost))]

\* Rows of a table without those at the positions in D
RECURSIVE DropRows(_, _, _)
DropRows(rows, D, i) ==
    IF i > Len(rows) THEN << >>
    ELSE (IF i \in D THEN << >> ELSE << rows[i] >>) \o DropRows(rows, D, i + 1)

\* Lines 500 and 518: what the row editors return.
delete_trip_rows(s, D) == [s EXCEPT !.trips = DropRows(s.trips, D, 1)]
delete_meal_rows(s, D) == [s EXCEPT !.meals = DropRows(s.meals, D, 1)]
set_trip_cell(s, i, c, v) == [s EXCEPT !.trips[i][c] = v]
set_meal_cell(s, i, c, v) == [s EXCEPT !.meals[i][c] = v]

\* The cells the model edits in the trip editor and in the meal editor
TripEdits == {<<"end_date", NA>>}
MealEdits == {<<"trip_id", 9>>}

----------------------------------------------------------------------------
(* The session: one action per widget event, each a whole script run *)

\* The page after the first run of a fresh session (lines 320-321, 345-381,
\* 524-547 on two empty tables).
Init ==
    /\ up_trips = NoFile
    /\ up_meals = NoFile
    /\ trips_df = empty_trips_df
    /\ trips_cols = DerivedCols
    /\ meals_df = empty_meals_df
    /\ run_status = "ok"
    /\ rederive_in = Session(<< >>, DerivedCols, << >>)
    /\ sel_countries = {}
    /\ sel_years = {}
    /\ score_df = << >>
    /\ search = ""
    /\ metrics = summary(<< >>, {})

\* Any widget below line 381 exists only on a page whose run got there.
Rendered == run_status = "ok"

\* A rerun that changes no table: a filter change, the R key.
Rerun == RunScript(Current, up_trips, up_meals,
                  AtWidgets(Current, up_trips, up_meals))

\* Lines 311-313
ClearTrips ==
    LET s0 == [Current EXCEPT !.trips = empty_trips_df, !.cols = {}]
    IN  RunScript(s0, up_trips, up_meals, AtWidgets(s0, up_trips, up_meals))

\* Lines 315-317
ClearMeals ==
    LET s0 == [Current EXCEPT !.meals = empty_meals_df]
    IN  RunScript(s0, up_trips, up_meals, AtWidgets(s0, up_trips, up_meals))

\* Line 298: a file is chosen in, or removed from, the trips uploader
UploadTrips ==
    \E f \in TripUploads :
        /\ up_trips # f
        /\ RunScript(Current, f, up_meals, AtWidgets(Current, f, up_meals))
RemoveTripsFile ==
    /\ up_trips.held
    /\ RunScript(Current, NoFile, up_meals,
                 AtWidgets(Current, NoFile, up_meals))

\* Line 299
UploadMeals ==
    \E f \in MealFiles :
        /\ up_meals # File(f)
        /\ RunScript(Current, up_trips, File(f),
                     AtWidgets(Current, up_trips, File(f)))
RemoveMealsFile ==
    /\ up_meals.held
    /\ RunScript(Current, up_trips, NoFile,
                 AtWidgets(Current, up_trips, NoFile))

\* Lines 405-421: the name, city, country, start and end date the Add Trip
\* form is submitted with: every field filled, with the dates in either
\* order or equal, or one of the three required texts left empty
FormTrips ==
    {<<"Kyoto Autumn", "Kyoto", "Japan", sd, ed>> :
        sd \in FormDates, ed \in FormDates}
    \cup {<<"", "Kyoto", "Japan", TemplateStart, TemplateEnd>>,
          <<"Kyoto Autumn", "", "Japan", TemplateStart, TemplateEnd>>,
          <<"Kyoto Autumn", "Kyoto", "", TemplateStart, TemplateEnd>>}

\* Lines 400-450: the run of a submitted Add Trip form
SubmitTrip(trip_name, primary_city, country, total, meal_cost, sd, ed) ==
    RunScript(Current, up_trips, up_meals,
              add_trip(AtWidgets(Current, up_trips, up_meals),
                       trip_name, primary_city, country, total,
                       meal_cost, sd, ed))

AddTrip ==
    /\ Rendered
    /\ Len(load_uploads(Current, up_trips, up_meals).trips) < MaxTrips
    /\ next_int(Column(load_uploads(Current, up_trips, up_meals).trips,
                       "trip_id")) <= MaxId
    /\ \E f \in FormTrips, total \in FormTotals, meal_cost \in FormMealCosts :
        SubmitTrip(f[1], f[2], f[3], total, meal_cost, f[4], f[5])

\* Line 454: the form exists only when the trip table is not empty.
AddMeal ==
    /\ Rendered
    /\ Len(load_uploads(Current, up_trips, up_meals).meals) < MaxMeals
    /\ next_int(Column(load_uploads(Current, up_trips, up_meals).meals,
                       "meal_id")) <= MaxId
    /\ \E i \in 1..Len(load_uploads(Current, up_trips, up_meals).trips),
          cuisine \in FormTexts("Japanese"), cost \in FormCosts :
        RunScript(Current, up_trips, up_meals,
                  add_meal(AtWidgets(Current, up_trips, up_meals), i,
                           cuisine, cost))

\* Lines 500 and 518: an edit made in a row editor arrives with the run it
\* triggers, on the table lines 380-381 stored in that run.
EditTrips ==
    /\ Rendered
    /\ LET n == Len(load_uploads(Current, up_trips, up_meals).trips)
       IN  \/ \E D \in (SUBSET (1..n)) \ {{}} :
                RunScript(Current, up_trips, up_meals,
                          delete_trip_rows(
                              AtWidgets(Current, up_trips, up_meals), D))
           \/ \E i \in 1..n, e \in TripEdits :
                RunScript(Current, up_trips, up_meals,
                          set_trip_cell(
                              AtWidgets(Current, up_trips, up_meals),
                              i, e[1], e[2]))

EditMeals ==
    /\ Rendered
    /\ LET n == Len(load_uploads(Current, up_trips, up_meals).meals)
       IN  \/ \E D \in (SUBSET (1..n)) \ {{}} :
                RunScript(Current, up_trips, up_meals,
                          delete_meal_rows(
                              AtWidgets(Current, up_trips, up_meals), D))
           \/ \E i \in 1..n, e \in MealEdits :
                RunScript(Current, up_trips, up_meals,
                          set_meal_cell(
                              AtWidgets(Current, up_trips, up_meals),
                              i, e[1], e[2]))

Next ==
    \/ Rerun
    \/ ClearTrips
    \/ ClearMeals
    \/ UploadTrips
    \/ RemoveTripsFile
    \/ UploadMeals
    \/ RemoveMealsFile
    \/ AddTrip
    \/ AddMeal
    \/ EditTrips
    \/ EditMeals

Spec == Init /\ [][Next]_vars

----------------------------------------------------------------------------
(* The derivation on its own: any two tables an upload can put in the     *)
(* session, and the two derivation passes applied to them.                 *)

TablesOver(R, n) == UNION {[1..k -> R] : k \in 0..n}

TokyoTrip(id, sd, ed, total, food) ==
    RawTrip(id, "Tokyo Spring Break", "Tokyo", "Japan", sd, ed, total, food, 45)

\* Trip rows: the template trip with its dates, total cost, manual food cost
\* and trip_id varied.
RecomputeTripRows ==
    {TokyoTrip(1, TemplateStart, TemplateEnd, 2000, 300),
     TokyoTrip(1, TemplateStart, TemplateEnd, NA, 300),
     TokyoTrip(1, TemplateEnd, TemplateStart, 2000, NA),
     TokyoTrip(1, TemplateStart, TemplateStart, 2000, 300),
     TokyoTrip(1, NA, TemplateEnd, NA, 300),
     TokyoTrip(2, TemplateStart, TemplateEnd, 2000, 0 - 5),
     TokyoTrip(NA, TemplateStart, TemplateEnd, 2000, 300)}

\* Meal rows: meals of trip 1, one of them a refund, a meal of trip 3 (an id
\* no trip row has), and a meal whose trip_id and cost are not numbers.
RecomputeMealRows ==
    {Meal(1, 1, 12), Meal(2, 1, 18), Meal(3, 1, 0 - 20), Meal(4, 3, 18),
     Meal(5, NA, NA)}

InitRecompute ==
    /\ up_trips = NoFile
    /\ up_meals = NoFile
    /\ trips_df \in TablesOver(RecomputeTripRows, MaxTrips)
    /\ trips_cols = {}
    /\ meals_df \in TablesOver(RecomputeMealRows, MaxMeals)
    /\ run_status = "ok"
    /\ rederive_in = NoTables
    /\ sel_countries = {}
    /\ sel_years = {}
    /\ score_df = << >>
    /\ search = ""
    /\ metrics = summary(<< >>, {})

\* Lines 345-381 applied to the tables
FirstDeriveStep ==
    LET d == first_derive(Current)
    IN  /\ run_status = "ok"
        /\ trips_df' = d.s.trips
        /\ trips_cols' = d.s.cols
        /\ meals_df' = d.s.meals
        /\ run_status' = IF d.ok THEN "ok" ELSE "KeyError"
        /\ UNCHANGED <<up_trips, up_meals, rederive_in>>
        /\ UNCHANGED <<sel_countries, sel_years, score_df, search, metrics>>

\* Lines 524-547 applied to the tables
ReDeriveStep ==
    LET s == re_derive(Current)
    IN  /\ run_status = "ok"
        /\ trips_df' = s.trips
        /\ trips_cols' = s.cols
        /\ meals_df' = s.meals
        /\ rederive_in' = Current
        /\ run_status' = "ok"
        /\ UNCHANGED <<up_trips, up_meals, sel_countries, sel_years, score_df>>
        /\ UNCHANGED <<search, metrics>>

NextRecompute == FirstDeriveStep \/ ReDeriveStep

SpecRecompute == InitRecompute /\ [][NextRecompute]_vars

----------------------------------------------------------------------------
(* The filters and the scores: any trip table an upload can put in the    *)
(* session, the page it gives, and the runs of the two filters and of the  *)
(* Save speed form on it.                                                   *)

\* What the Save speed form can be submitted with (line 930)
FormSpeeds == {45}

\* 2024-03-15
NextYearStart == TemplateStart + 366

\* Trip rows: speeds of 45 and 20 Mbps and no speed; total costs of 2100 over
\* 7 days and 2000 over one day, a zero, a negative and a missing total cost;
\* a missing start date; two countries and two years.
InsightRows ==
    {RawTrip(1, "Tokyo Spring Break", "Tokyo", "Japan",
             TemplateStart, TemplateEnd, 2100, 300, 45),
     RawTrip(2, "Osaka Free Stay", "Osaka", "Japan",
             TemplateStart, TemplateEnd, 0, NA, 45),
     RawTrip(3, "Lisbon", "Lisbon", "Portugal",
             TemplateStart, TemplateStart, 2000, NA, 20),
     RawTrip(4, "Porto", "Porto", "Portugal",
             TemplateStart, TemplateEnd, 2100, NA, NA),
     RawTrip(5, "Kyoto Autumn", "Kyoto", "Japan",
             NA, TemplateEnd, 2000, NA, 20),
     RawTrip(6, "Faro Refunded", "Faro", "Portugal",
             TemplateStart, TemplateEnd, 0 - 700, NA, 20),
     RawTrip(7, "Tokyo Again", "Tokyo", "Japan",
             NextYearStart, NextYearStart + 7, NA, NA, 20),
     RawTrip(HalfId, "Osaka Free Stay", "Osaka", "Japan",
             TemplateStart, TemplateEnd, 2100, NA, 20)}

InitInsights ==
    /\ up_trips = NoFile
    /\ up_meals = NoFile
    /\ \E raw \in TablesOver(InsightRows, MaxTrips) :
          /\ rederive_in = first_derive(Session(raw, {}, << >>)).s
          /\ trips_df = re_derive(rederive_in).trips
    /\ trips_cols = DerivedCols
    /\ meals_df = empty_meals_df
    /\ run_status = "ok"
    /\ sel_countries = countries(trips_df)
    /\ sel_years = years(trips_df)
    /\ score_df = score_df_of(trips_df)
    /\ search = ""
    /\ metrics = summary(trips_df, mask(trips_df, sel_countries, sel_years))

\* The texts typed in the search box: part of a name, and one with a "."
FormSearches == {"", "tok", "o."}

\* Lines 556-558: the user changes the selection of one of the two filters,
\* or the text of the search box
SetFilters ==
    /\ Rendered
    /\ \/ \E S \in SUBSET countries(trips_df) :
             /\ S # sel_countries
             /\ RunPage(Current, up_trips, up_meals,
                        AtWidgets(Current, up_trips, up_meals),
                        Pick(S), NoPick, NoPick, NoSave)
       \/ \E S \in SUBSET years(trips_df) :
             /\ S # sel_years
             /\ RunPage(Current, up_trips, up_meals,
                        AtWidgets(Current, up_trips, up_meals),
                        NoPick, Pick(S), NoPick, NoSave)
       \/ \E s \in FormSearches :
             /\ s # search
             /\ RunPage(Current, up_trips, up_meals,
                        AtWidgets(Current, up_trips, up_meals),
                        NoPick, NoPick, Pick(s), NoSave)

\* Lines 922-943: the Save speed form, for a trip of the filtered set
SaveSpeed ==
    /\ Rendered
    /\ \E i \in filtered(trips_df, sel_countries, sel_years, search),
          new_speed \in FormSpeeds :
        RunPage(Current, up_trips, up_meals,
                AtWidgets(Current, up_trips, up_meals),
                NoPick, NoPick, NoPick, Save(i, new_speed))

NextInsights == SetFilters \/ SaveSpeed

SpecInsights == InitInsights /\ [][NextInsights]_vars

----------------------------------------------------------------------------
(* Properties *)

Derived == "food_cost_usd_final" \in trips_cols

TripRows == {trips_df[i] : i \in 1..Len(trips_df)}

\* The meal rows whose trip_id is that of trip row r
MealsOf(r, meals) == SelectSeq(meals, LAMBDA m : m.trip_id = r.trip_id)

\* The raw cells of a table, with no derived column
RawTable(rows) ==
    [i \in 1..Len(rows) |->
        LET r == rows[i]
        IN  RawTrip(r.trip_id, r.trip_name, r.primary_city, r.country,
                    r.start_date, r.end_date, r.total_cost_usd,
                    r.food_cost_usd, r.internet_speed_mbps)]

\* The derivation of §4.1 applied to the raw trip cells and the meals only
FromScratch(rows, meals) == re_derive(Session(RawTable(rows), {}, meals)).trips

\* C1: after a completed run, a trip with at least one meal has
\* food_cost_usd_final = max(0, sum of its meals' cost_usd), whatever its
\* manual food_cost_usd; a trip with no meal has max(0, food_cost_usd), and 0
\* when that is missing too.
C1_ReconciliationPrecedence ==
    run_status = "ok" =>
        \A r \in TripRows :
            r.food_cost_usd_final =
                IF Len(MealsOf(r, meals_df)) > 0
                THEN Max(0, SumCost(meals_df, r.trip_id))
                ELSE Max(0, fillna(r.food_cost_usd, 0))

\* C2: after every completed run the derived columns are a function of the
\* current raw trip cells and the current meal table only: they equal the
\* derivation computed from scratch, so with no meal left every
\* food_cost_usd_from_meals is undefined.
C2_DerivedFromCurrentTables ==
    run_status = "ok" => trips_df = FromScratch(trips_df, meals_df)

\* C3: the derivation at the top of a run never raises, on any tables the
\* app's own operations produce.
C3_DeriveNeverRaises == run_status = "ok"

\* C4: a run that changes no table, on a session no upload feeds, derives
\* the same columns again: it completes and leaves every trip row as the
\* previous run left it.
C4_RerunIdempotent ==
    [][(run_status = "ok" /\ ~up_trips.held /\ ~up_meals.held /\ Rerun)
        => (run_status' = "ok" /\ trips_df' = trips_df)]_vars

\* C5: every derived trip row has days >= 1, also with a missing date.
C5_DaysAtLeastOne ==
    Derived => \A r \in TripRows : ~isna(r.days) /\ r.days >= 1

\* C6: with both dates present, days is the whole days from start_date to
\* end_date, at least 1 and without an inclusive +1, and cost_per_day is
\* total_cost_usd / days to the nearest cent; the template trip (2000 over
\* 2023-03-15..2023-03-22) with meals of 12 and 18 has days 7, cost_per_day
\* 285.71 and both food columns 30.
C6_DaysAndCostPerDay ==
    Derived =>
        \A r \in TripRows :
            (~isna(r.start_date) /\ ~isna(r.end_date)) =>
                /\ r.days = Max(1, r.end_date - r.start_date)
                /\ ~isna(r.total_cost_usd) =>
                      /\ 2 * (100 * r.total_cost_usd - r.cost_per_day * r.days)
                            <= r.days
                      /\ 2 * (r.cost_per_day * r.days - 100 * r.total_cost_usd)
                            <= r.days
                /\ (/\ r.trip_id = 1
                    /\ r.total_cost_usd = 2000
                    /\ r.start_date = TemplateStart
                    /\ r.end_date = TemplateEnd
                    /\ Len(meals_df) = 2
                    /\ \A i \in 1..2 : meals_df[i].trip_id = 1
                    /\ {meals_df[i].cost_usd : i \in 1..2} = {12, 18})
                   => /\ r.days = 7
                      /\ r.cost_per_day = 28571
                      /\ r.food_cost_usd_from_meals = 30
                      /\ r.food_cost_usd_final = 30

C6_Witness ==
    /\ Derived
    /\ run_status = "ok"
    /\ Len(trips_df) = 1
    /\ RawOf(trips_df[1]) = RawOf(template_trips[1])
    /\ meals_df = << Meal(1, 1, 12), Meal(2, 1, 18) >>
    /\ trips_df[1].days = 7
    /\ trips_df[1].cost_per_day = 28571
    /\ trips_df[1].food_cost_usd_final = 30

\* C7: a derived trip row whose total_cost_usd is missing has cost_per_day 0,
\* whatever its dates.
C7_MissingTotalGivesZero ==
    Derived =>
        \A r \in TripRows : isna(r.total_cost_usd) => r.cost_per_day = 0

\* C8: every derived trip row has a defined food_cost_usd_final >= 0.
C8_FoodFinalNonNegative ==
    Derived =>
        \A r \in TripRows :
            ~isna(r.food_cost_usd_final) /\ r.food_cost_usd_final >= 0

\* A negative meal sum and a negative manual value, both clamped to 0
C8_Witness ==
    /\ Derived
    /\ \E r \in TripRows :
          /\ ~isna(r.food_cost_usd_from_meals)
          /\ r.food_cost_usd_from_meals < 0
          /\ r.food_cost_usd_final = 0
    /\ \E r \in TripRows :
          /\ isna(r.food_cost_usd_from_meals)
          /\ r.food_cost_usd < 0 /\ ~isna(r.food_cost_usd)
          /\ r.food_cost_usd_final = 0

\* C9: a derivation pass that completes returns one row per input trip row,
\* in the same order, with the raw cells of that row.
C9_RecomputePreservesRows ==
    [][run_status' = "ok" =>
         /\ Len(trips_df') = Len(trips_df)
         /\ \A i \in 1..Len(trips_df) :
               RawOf(trips_df'[i]) = RawOf(trips_df[i])]_vars

\* Two trip rows sharing a trip_id that has two meals, next to an orphan-free
\* meal table: both rows carry the sum
C9_Witness ==
    /\ Derived
    /\ Len(trips_df) = 2
    /\ trips_df[1].trip_id = trips_df[2].trip_id
    /\ Len(meals_df) = 2
    /\ \A i \in 1..2 : meals_df[i].trip_id = trips_df[1].trip_id
    /\ trips_df[1].food_cost_usd_from_meals = 30
    /\ trips_df[2].food_cost_usd_from_meals = 30

\* The meals whose trip_id is the trip_id of some row of the trip table
NonOrphans(meals, rows) ==
    SelectSeq(meals, LAMBDA m : \E i \in 1..Len(rows) : rows[i].trip_id = m.trip_id)

\* C10: the rows a completed run derived are the rows it derives from the
\* same tables without the orphaned meals: an orphaned meal changes no
\* derived value of any trip.
C10_OrphansInert ==
    run_status = "ok" =>
        trips_df =
            re_derive([rederive_in EXCEPT
                         !.meals = NonOrphans(rederive_in.meals,
                                              rederive_in.trips)]).trips

\* The sum a trip row is to carry: over the meals whose trip_id is a number
\* and is the row's trip_id, a non-numeric cost counting as 0; undefined when
\* the row has no such meal
MealSumOf(r, meals) ==
    LET mine == SelectSeq(meals, LAMBDA m : ~isna(m.trip_id)
                                            /\ m.trip_id = r.trip_id)
    IN  IF mine = << >> THEN NA
        ELSE SumCost([i \in 1..Len(mine) |->
                         [mine[i] EXCEPT !.cost_usd = fillna(@, 0)]],
                     r.trip_id)

\* C11: a derivation pass over a non-empty meal table gives every trip row
\* the sum of its own meals, a meal with a non-numeric cost_usd counting as 0
\* and a meal with a non-numeric or missing trip_id counting for no trip row,
\* also not for a trip row whose own trip_id is missing.
C11_SilentCoercion ==
    [][(run_status' = "ok" /\ Len(meals_df) > 0) =>
         /\ Len(trips_df') = Len(trips_df)
         /\ \A i \in 1..Len(trips_df) :
               trips_df'[i].food_cost_usd_from_meals
                   = MealSumOf(trips_df[i], meals_df)]_vars

\* new_id is absent from the ids, and is the largest numeric id + 1, or 1 when
\* no id is a number
FreshId(new_id, ids) ==
    LET nums == {ids[i] : i \in 1..Len(ids)} \ {NA}
    IN  /\ new_id \notin nums
        /\ IF nums = {} THEN new_id = 1
           ELSE new_id - 1 \in nums /\ \A y \in nums : y < new_id

\* The tables the forms of the coming run act on
FormTables == AtWidgets(Current, up_trips, up_meals)

UniqueIn(rows, c) ==
    \A i, j \in 1..Len(rows) : i # j => rows[i][c] # rows[j][c]

\* C13: in every state of the session trip_id is unique within the trip table
\* and meal_id is unique within the meal table.
C13_IdsUnique ==
    /\ UniqueIn(trips_df, "trip_id")
    /\ UniqueIn(meals_df, "meal_id")

\* A trip row the Add Trip form would accept: name, city, country and both
\* dates present, end_date not before start_date
ValidTrip(r) ==
    /\ r.trip_name # "" /\ r.primary_city # "" /\ r.country # ""
    /\ ~isna(r.start_date) /\ ~isna(r.end_date)
    /\ r.end_date >= r.start_date

\* C14: a run of the Add Trip form or of the trip editor puts no row with a
\* missing required field or with end_date before start_date into the session
\* trip table: every such row of the table it stores was in the table the
\* form and the editor were given.
C14_InvalidTripRejected ==
    [][(AddTrip \/ EditTrips) =>
         \A i \in 1..Len(trips_df') :
            ~ValidTrip(trips_df'[i]) =>
                \E j \in 1..Len(FormTables.trips) :
                    RawOf(FormTables.trips[j]) = RawOf(trips_df'[i])]_vars

\* C15: a run that finds a newly chosen trips file lacking a required column
\* ends with a schema error and leaves the session trip table as it was
\* before the upload.
C15_SchemaErrorKeepsTable ==
    [][(up_trips' # up_trips /\ up_trips'.held /\ up_trips'.missing # {}) =>
         /\ run_status' = "SchemaError"
         /\ trips_df' = trips_df]_vars

ScoreRows == {score_df[k] : k \in 1..Len(score_df)}

InUnit(x) == RatLeq(Zero, x) /\ RatLeq(x, One)

\* C16: every scored trip has speed_norm and afford_norm in [0, 1] and a
\* workability_score in [0, 100], also with a zero cost_per_day, with equal
\* speeds, with equal costs and with one scored trip.
C16_ScoreBounds ==
    \A r \in ScoreRows :
        /\ InUnit(r.speed_norm)
        /\ InUnit(r.afford_norm)
        /\ RatLeq(Zero, r.workability_score)
        /\ RatLeq(r.workability_score, [n |-> 100, d |-> 1])

\* Two scored trips with different speeds, the faster one with cost_per_day
\* 0: it scores 100 and the other one, as affordable by the zero-cost guard,
\* scores 40; shown by a run in which a country was deselected
C16_Witness ==
    /\ run_status = "ok"
    /\ sel_countries # countries(trips_df)
    /\ Len(score_df) = 2
    /\ \E r \in ScoreRows :
          /\ r.cost_per_day = 0
          /\ r.speed_norm = One
          /\ r.workability_score = [n |-> 100, d |-> 1]
    /\ \E r \in ScoreRows :
          /\ r.cost_per_day > 0
          /\ r.speed_norm = Zero
          /\ r.workability_score = [n |-> 40, d |-> 1]

\* The filtered set of the session trip table under the selected filters
Filtered == filtered(trips_df, sel_countries, sel_years, search)

\* C17: the scores shown by a completed run are those of the trips that pass
\* the filters, normalised against the minimum and maximum of those trips
\* only.
C17_ScoreBasisIsFilteredSet ==
    run_status = "ok" => score_df = workability(trips_df, Filtered)

\* C18: when all scored trips have the same internet_speed_mbps, one scored
\* trip included, each of them has speed_norm = 1.0; when all have the same
\* inverse cost, each has afford_norm = 1.0.
C18_DegenerateRange ==
    /\ (\A r, q \in ScoreRows : r.internet_speed_mbps = q.internet_speed_mbps)
          => \A r \in ScoreRows : r.speed_norm = One
    /\ (\A r, q \in ScoreRows : r.inv_cost = q.inv_cost)
          => \A r \in ScoreRows : r.afford_norm = One

\* Two scored trips with the same speed and different costs per day, the
\* Lisbon trip (trip 3) after 45 Mbps was saved for it: both have speed_norm
\* 1.0, the dearer one has afford_norm 0.0
C18_Witness ==
    /\ Len(trips_df) = 2
    /\ Len(score_df) = 2
    /\ \E r \in ScoreRows : r.trip_id = 3 /\ r.internet_speed_mbps = 45
    /\ score_df[1].internet_speed_mbps = score_df[2].internet_speed_mbps
    /\ score_df[1].cost_per_day # score_df[2].cost_per_day
    /\ \A r \in ScoreRows : r.speed_norm = One
    /\ \E r \in ScoreRows : r.afford_norm = Zero

\* C19: after a completed run a trip of the filtered set that has a
\* cost_per_day but no internet_speed_mbps is among the scored trips, with
\* speed_norm = 0.0 and workability_score = 40 x afford_norm.
C19_UndefinedSpeedScored ==
    run_status = "ok" =>
        \A i \in Filtered :
            (isna(trips_df[i].internet_speed_mbps)
             /\ ~isna(trips_df[i].cost_per_day)) =>
                \E r \in ScoreRows :
                    /\ r.index = i
                    /\ r.speed_norm = Zero
                    /\ r.workability_score = RatScale(40, r.afford_norm)

\* The inverse costs 1 / cost_per_day of the scored trips with a non-zero cost
FiniteInvCosts ==
    {Rat(100, q.cost_per_day) : q \in {x \in ScoreRows : x.cost_per_day # 0}}

occurs_in(text, s) ==
    \E k \in 0..(Len(chars(text)) - Len(chars(s))) :
        \A j \in 1..Len(chars(s)) :
            lower(chars(s)[j]) = lower(chars(text)[k + j])

\* C21: a trip is in the filtered set of a completed run exactly when its
\* country is among the selected countries, its year is among the selected
\* years, and the search text is empty or occurs, letter case apart, as a
\* substring of its trip_name or of its primary_city.
C21_FilterPredicate ==
    Rendered =>
        metrics.index =
            {i \in 1..Len(trips_df) :
                /\ trips_df[i].country \in sel_countries
                /\ trips_df[i].year \in sel_years
                /\ \/ search = ""
                   \/ occurs_in(trips_df[i].trip_name, search)
                   \/ occurs_in(trips_df[i].primary_city, search)}

\* C22: over an empty filtered set the metrics of a completed run are a count
\* of 0, 0 distinct countries, a total spend of 0, and a median cost per day
\* that is the undefined value, not 0.
C22_EmptyAggregates ==
    (Rendered /\ metrics.index = {}) =>
        /\ metrics.trips = 0
        /\ metrics.countries = 0
        /\ metrics.total_spend = 0
        /\ metrics.med_cpd = nan

\* The filtered rows of the last run that had a defined speed when the metrics
\* were computed
WithSpeed ==
    {j \in metrics.index : ~isna(rederive_in.trips[j].internet_speed_mbps)}

\* C23: the average internet speed of a completed run is the mean over the
\* filtered trips with a defined speed, and undefined when there is none; the
\* "Trips >= 25 Mbps" figure is 100 x (filtered trips with speed >= 25) /
\* (filtered trips), and undefined when no filtered trip has a defined speed.
C23_SpeedMetrics ==
    Rendered =>
        IF WithSpeed = {}
        THEN metrics.avg_speed = nan /\ metrics.pct_good = nan
        ELSE /\ metrics.avg_speed =
                    Rat(col_sum(rederive_in.trips, WithSpeed,
                                "internet_speed_mbps"),
                        Cardinality(WithSpeed))
             /\ metrics.pct_good =
                    Rat(100 * Cardinality(
                            {j \in WithSpeed :
                                rederive_in.trips[j].internet_speed_mbps
                                    >= 25}),
                        Cardinality(metrics.index))

\* C24: what a completed run displays is recomputed after every mutation of
\* that run: the Avg Internet Speed and Trips >= 25 Mbps metrics are those of
\* the session trip table as the run leaves it, a speed saved in the run
\* included.
C24_MetricsFollowSavedSpeed ==
    Rendered =>
        /\ metrics.avg_speed = summary(trips_df, metrics.index).avg_speed
        /\ metrics.pct_good = summary(trips_df, metrics.index).pct_good

\* The submissions of the Add Trip form with no name, no city or no country,
\* or with an end before the start
RejectedSubmissions ==
    {f \in FormTrips : f[1] = "" \/ f[2] = "" \/ f[3] = "" \/ f[5] < f[4]}

\* The next trip_id the Add Trip form would allocate over a trip table
NextTripId(rows) == next_int(Column(rows, "trip_id"))

\* C25: a run of the Add Trip form submitted with a missing name, city or
\* country, or with end_date before start_date, leaves the session trip
\* table, the meal table and the next id to allocate unchanged; a run of a
\* submission with end_date equal to start_date appends a trip with days = 1.
C25_RejectedAddTripIsNoOp ==
    [][/\ \A f \in RejectedSubmissions :
            (/\ Rendered
             /\ up_trips' = up_trips
             /\ up_meals' = up_meals
             /\ SubmitTrip(f[1], f[2], f[3], 2000, 300, f[4], f[5])) =>
                /\ trips_df' = trips_df
                /\ meals_df' = meals_df
                /\ NextTripId(trips_df') = NextTripId(trips_df)
       /\ (/\ Rendered
           /\ Len(trips_df') = Len(FormTables.trips) + 1
           /\ SubmitTrip("Kyoto Autumn", "Kyoto", "Japan", 2000, 300,
                         TemplateStart, TemplateStart)) =>
                trips_df'[Len(trips_df')].days = 1]_vars

\* C26: a trip added with the Add Trip form stays in the session trip table
\* in every later run that neither clears the table, deletes the row nor
\* changes the upload file: a rerun keeps every such trip, also while an
\* uploaded trips file is still held.
C26_AddedTripSurvivesRerun ==
    [][Rerun =>
         \A i \in 1..Len(trips_df) :
            trips_df[i].trip_name = "Kyoto Autumn" =>
                \E j \in 1..Len(trips_df') :
                    RawOf(trips_df'[j]) = RawOf(trips_df[i])]_vars

\* C27: the run in which "Clear trips" is pressed derives and shows an empty
\* trip table, and the run in which "Clear meals" is pressed an empty meal
\* table, whether or not the uploader still holds a file.
C27_ClearEmptiesTable ==
    [][/\ ClearTrips => (trips_df' = << >> /\ metrics'.trips = 0)
       /\ ClearMeals => meals_df' = << >>]_vars

\* C28: the trip a run of the Add Trip form appends has no meals: after the
\* recompute of that run its food_cost_usd_from_meals is undefined and its
\* food_cost_usd_final is the meal cost entered in the form, whatever the
\* tables held before.
C28_NewTripHasNoMeals ==
    [][(Len(trips_df') = Len(FormTables.trips) + 1 /\ AddTrip) =>
         /\ isna(trips_df'[Len(trips_df')].food_cost_usd_from_meals)
         /\ trips_df'[Len(trips_df')].food_cost_usd_final \in FormMealCosts]_vars

\* C29: when a completed run has every available country and every available
\* year selected and the search box empty, its filtered set is the whole trip
\* table, trips without a start_date included.
C29_DefaultFiltersShowAll ==
    (/\ Rendered
     /\ sel_countries = countries(trips_df)
     /\ sel_years = years(trips_df)
     /\ search = "") =>
        metrics.index = 1..Len(trips_df)

\* C30: a run of the Save speed form changes only internet_speed_mbps, and
\* only on the rows of the session trip table whose trip_id equals the id of
\* the selected trip: every other cell of the trip table and the whole meal
\* table are as before the run.
C30_SaveSpeedFrame ==
    [][SaveSpeed =>
         /\ meals_df' = meals_df
         /\ \E i \in Filtered, new_speed \in FormSpeeds :
               trips_df' =
                   [j \in 1..Len(trips_df) |->
                       IF trips_df[j].trip_id = trips_df[i].trip_id
                       THEN [trips_df[j] EXCEPT
                                !.internet_speed_mbps = new_speed]
                       ELSE trips_df[j]]]_vars

====
